---- MODULE Spec2Model ----
(***************************************************************************)
(* The transport core of the XRPL.Sale Go SDK (client.go, services.go):    *)
(* client construction, the request pipeline with its retry loop, the      *)
(* session token and the Auth facade.                                      *)
(*                                                                         *)
(* The HTTP client is go-resty v2.  What the SDK configures on it          *)
(* (client.go:103-122, 136-139, 145-148, 152-165) is modelled by what      *)
(* resty does with that configuration: the Backoff retry loop, the         *)
(* jittered wait between attempts, the per-attempt header set, and the     *)
(* decoding of an error body into the request's error object.              *)
(*                                                                         *)
(* Durations are counted in whole seconds.                                 *)
(***************************************************************************)
EXTENDS Integers, Sequences, FiniteSets, TLC

(* ------------------------------ bounds --------------------------------- *)

\* The largest MaxRetries a caller configures.
MaxRetriesBound == 4

(* ------------------------- program constants --------------------------- *)

DefaultTimeout == 30
DefaultMaxRetries == 3
DefaultRetryWaitTime == 1
RetryMaxWaitTime == 10

ProductionBaseURL == "https://api.xrpl.sale/v1"
TestnetBaseURL == "https://api-testnet.xrpl.sale/v1"
Production == "production"
Testnet == "testnet"
UserAgent == "XRPL.Sale-Go-SDK/1.0.0"

(* ------------------------------ inputs --------------------------------- *)

Threads == {"a", "b"}

APIKeys == {"", "key"}
Environments == {"", Production, Testnet, "staging"}
BaseURLs == {"", "https://custom.example/v1"}
Timeouts == {0, 5}
MaxRetriesChoices == -1 .. MaxRetriesBound
\* unset, 2 s, and 20 s (above the 10 s ceiling)
RetryWaitChoices == {0, 2, 20}

Tokens == {"t1", "t2"}
Messages == {"m1", "m2"}
Statuses == {200, 304, 404, 500}
\* SupportedMethods with a case for HEAD.
SupportedMethodsAndHead == {"GET", "POST", "PUT", "PATCH", "DELETE", "HEAD"}

\* client.go:170-180: the verbs Request dispatches.
SupportedMethods == {"GET", "POST", "PUT", "PATCH", "DELETE"}
Methods == {"GET", "POST", "PUT", "PATCH", "DELETE", "HEAD"}

Min(a, b) == IF a < b THEN a ELSE b

RECURSIVE Exp2(_)
Exp2(k) == IF k = 0 THEN 1 ELSE 2 * Exp2(k - 1)

(* -------------------------- construction ------------------------------- *)

Config(key, env, url, timeout, retries, wait) ==
    [APIKey |-> key, Environment |-> env, BaseURL |-> url, Timeout |-> timeout,
     MaxRetries |-> retries, RetryWaitTime |-> wait]

\* Every configuration a caller can pass to NewClientWithConfig.
ConfigInputs ==
    { Config(k, e, u, t, r, w) :
        k \in APIKeys, e \in Environments, u \in BaseURLs, t \in Timeouts,
        r \in MaxRetriesChoices, w \in RetryWaitChoices }

\* The configurations of the request pipeline's specification: the fields
\* the pipeline reads (API key, retry count, retry wait) vary.
PipelineInputs ==
    { Config(k, "", "", 0, r, w) :
        k \in APIKeys, r \in 0 .. MaxRetriesBound, w \in RetryWaitChoices }

\* ApplyDefaults without the default of RetryWaitTime.
ApplyDefaultsNoWait(c) ==
    LET env == IF c.Environment = "" THEN Production ELSE c.Environment
        url == IF c.BaseURL = ""
               THEN (IF env = Testnet THEN TestnetBaseURL ELSE ProductionBaseURL)
               ELSE c.BaseURL
    IN  [APIKey |-> c.APIKey,
         Environment |-> env,
         BaseURL |-> url,
         Timeout |-> IF c.Timeout = 0 THEN DefaultTimeout ELSE c.Timeout,
         MaxRetries |-> IF c.MaxRetries = 0 THEN DefaultMaxRetries ELSE c.MaxRetries,
         RetryWaitTime |-> c.RetryWaitTime]

\* client.go:78-100: the defaults of the unset fields.
ApplyDefaults(c) ==
    LET env == IF c.Environment = "" THEN Production ELSE c.Environment
        url == IF c.BaseURL = ""
               THEN (IF env = Testnet THEN TestnetBaseURL ELSE ProductionBaseURL)
               ELSE c.BaseURL
    IN  [APIKey |-> c.APIKey,
         Environment |-> env,
         BaseURL |-> url,
         Timeout |-> IF c.Timeout = 0 THEN DefaultTimeout ELSE c.Timeout,
         MaxRetries |-> IF c.MaxRetries = 0 THEN DefaultMaxRetries ELSE c.MaxRetries,
         RetryWaitTime |-> IF c.RetryWaitTime = 0 THEN DefaultRetryWaitTime
                           ELSE c.RetryWaitTime]

BaseHeaders ==
    [h \in {"User-Agent", "Accept", "Content-Type"} |->
        IF h = "User-Agent" THEN UserAgent ELSE "application/json"]

\* resty's Header.Set: sets (replaces) one header of the map.
SetHeader(hdr, name, value) ==
    [h \in DOMAIN hdr \cup {name} |-> IF h = name THEN value ELSE hdr[h]]

\* client.go:103-111, 136-139: the resty client built from the configuration.
NewHTTPClient(cfg) ==
    [BaseURL |-> cfg.BaseURL,
     Timeout |-> cfg.Timeout,
     RetryCount |-> cfg.MaxRetries,
     RetryWaitTime |-> cfg.RetryWaitTime,
     RetryMaxWaitTime |-> RetryMaxWaitTime,
     Header |-> IF cfg.APIKey # ""
                THEN SetHeader(BaseHeaders, "X-API-Key", cfg.APIKey)
                ELSE BaseHeaders,
     Token |-> ""]

(* ------------------------------- state --------------------------------- *)

VARIABLES
    input,       \* the Config the caller passed to NewClientWithConfig
    built,       \* whether NewClientWithConfig has run
    config,      \* Client.config
    httpClient,  \* Client.httpClient: the resty client's settings, headers, Token
    authToken,   \* Client.authToken
    call,        \* per goroutine: the call it is executing
    lastSet,     \* history: the token of the last completed SetAuthToken, and
                 \* the operation that set it
    webhookSecret,  \* Client.config.WebhookSecret
    verified,    \* the last VerifyWebhookSignature call: arguments and result
    parsed,      \* the last ParseWebhookEvent call: argument and results
    listed       \* the last ProjectsService.List call: options and the query
                 \* parameters it handed to Client.Get

clientVars == <<input, built, config, httpClient, authToken, call, lastSet>>
inboundVars == <<webhookSecret, verified, parsed, listed>>
vars == <<clientVars, inboundVars>>

NoHeaders == [h \in {} |-> ""]
NoResp == [err |-> "none", status |-> 0, msg |-> "", token |-> ""]
NoSet == [tok |-> "", by |-> "none"]
Pending == [kind |-> "pending", msg |-> "", status |-> 0]

IdleCall ==
    [op |-> "none", method |-> "", pc |-> "idle", attempt |-> 0, resp |-> NoResp,
     apiError |-> "", sent |-> NoHeaders, fresh |-> FALSE,
     wait |-> 0, prevWait |-> 0,
     ctxDone |-> FALSE, cancelPc |-> "", cancelAttempt |-> 0,
     ret |-> Pending, tok |-> "", tok0 |-> <<"", "">>]

\* client.go:76-142
NewClientWithConfig ==
    /\ ~built
    /\ built' = TRUE
    /\ config' = ApplyDefaults(input)
    /\ httpClient' = NewHTTPClient(ApplyDefaults(input))
    /\ authToken' = ""
    /\ UNCHANGED <<input, call, lastSet, inboundVars>>

(* --------------------------- request pipeline -------------------------- *)

AuthOps == {"Authenticate", "Refresh"}

\* AttemptHeaders with the bearer header taking the API key header's place.
AttemptHeadersEitherOr(hc) ==
    IF hc.Token # ""
    THEN [h \in (DOMAIN hc.Header \ {"X-API-Key"}) \cup {"Authorization"} |->
            IF h = "Authorization" THEN <<"Bearer", hc.Token>> ELSE hc.Header[h]]
    ELSE hc.Header

\* resty's addCredentials, run for every attempt: the client's headers, and
\* the Authorization header when the client's Token is not empty.
AttemptHeaders(hc) ==
    IF hc.Token # ""
    THEN SetHeader(hc.Header, "Authorization", <<"Bearer", hc.Token>>)
    ELSE hc.Header

\* IsError that takes only 5xx for an error.
IsErrorServerOnly(status) == status > 499

\* resty's Response.IsError / IsSuccess, which client.go:190 and :213 consult.
IsError(status) == status > 399
IsSuccess(status) == status > 199 /\ status < 300

\* RetryCondition that also retries client errors.
RetryConditionAnyError(resp) == resp.err # "none" \/ resp.status >= 400

\* client.go:118-122: the retry condition.
RetryCondition(resp) == resp.err # "none" \/ resp.status >= 500

\* What one attempt can end with when the context is live: a network or
\* timeout error, or a response; an error response has a decoded message
\* ("" when the body has none or cannot be decoded), a 2xx response to
\* Authenticate/Refresh a token ("" when the body has none).
Outcomes(op) ==
    {[err |-> "net", status |-> 0, msg |-> "", token |-> ""]}
    \cup { [err |-> "none", status |-> s, msg |-> m, token |-> ""] :
             s \in {x \in Statuses : IsError(x)}, m \in Messages \cup {""} }
    \cup { [err |-> "none", status |-> s, msg |-> "", token |-> ""] :
             s \in {x \in Statuses : ~IsError(x) /\ ~IsSuccess(x)} }
    \cup { [err |-> "none", status |-> s, msg |-> "", token |-> k] :
             s \in {x \in Statuses : IsSuccess(x)},
             k \in IF op \in AuthOps THEN Tokens \cup {""} ELSE {""} }

CtxErrResp == [err |-> "ctx", status |-> 0, msg |-> "", token |-> ""]

\* client.go:164-165, 206: one APIError per call, handed to resty with
\* SetError; every attempt with an error status unmarshals its body into that
\* same object, so a body without a message leaves the field as it was.
DecodeError(apiError, resp) ==
    IF resp.err = "none" /\ IsError(resp.status) /\ resp.msg # ""
    THEN resp.msg
    ELSE apiError

\* JitterBackoff without the cap of SetRetryMaxWaitTime.
JitterBackoffUncapped(min, max, attempt) ==
    LET temp == min * Exp2(attempt)
    IN  { IF r < min THEN min ELSE r : r \in {x \in 0 .. temp : 2 * x < temp} }

\* resty's jitterBackoff under SetRetryWaitTime(min) / SetRetryMaxWaitTime(max)
\* (client.go:107-108): a random duration below half the capped exponential,
\* raised to min when below it.  The durations it can return, for the draws
\* r of a whole number of seconds below temp / 2.
JitterBackoff(min, max, attempt) ==
    LET temp == Min(max, min * Exp2(attempt))
    IN  { IF r < min THEN min ELSE r : r \in {x \in 0 .. temp : 2 * x < temp} }

\* WaitOutcome that waits on the timer alone.
WaitOutcomeTimerOnly(ctxDone) == "timer"

\* resty's select between the wait timer and ctx.Done(): which one wakes the
\* waiting call.
WaitOutcome(ctxDone) == IF ctxDone THEN "cancelled" ELSE "timer"

\* client.go:185-197 and :209-221: the error Request/Get return for the
\* error and response the verb call came back with.
RequestReturn(err, resp, apiError) ==
    IF err = "ctx" THEN [kind |-> "ContextError", msg |-> "", status |-> 0]
    ELSE IF err # "none" THEN [kind |-> "TransportError", msg |-> "", status |-> 0]
    ELSE IF IsError(resp.status)
         THEN IF apiError # ""
              THEN [kind |-> "APIError", msg |-> apiError, status |-> resp.status]
              ELSE [kind |-> "GenericAPIError", msg |-> "", status |-> resp.status]
    ELSE [kind |-> "nil", msg |-> "", status |-> resp.status]

\* ShouldSetToken without the guard.
ShouldSetTokenAlways(ret, token) == TRUE

\* services.go:194, :205: whether Authenticate/Refresh store the token.
ShouldSetToken(ret, token) == ret.kind = "nil" /\ token # ""

\* A call begins: req := c.httpClient.R().SetContext(ctx)..., and the verb
\* call starts the first attempt.
Begin(t, op) ==
    /\ built
    /\ call[t].pc \in {"idle", "done"}
    /\ call' = [call EXCEPT ![t] =
                  [IdleCall EXCEPT !.op = op, !.pc = "inflight", !.attempt = 1,
                                   !.sent = AttemptHeaders(httpClient),
                                   !.fresh = TRUE,
                                   !.tok0 = <<authToken, httpClient.Token>>]]
    /\ UNCHANGED <<input, built, config, httpClient, authToken, lastSet, inboundVars>>

\* client.go:151-183
StartRequest(t, method) ==
    /\ built
    /\ call[t].pc \in {"idle", "done"}
    /\ IF method \in SupportedMethods
       THEN call' = [call EXCEPT ![t] =
                       [IdleCall EXCEPT !.op = "Request", !.method = method,
                          !.pc = "inflight", !.attempt = 1,
                          !.sent = AttemptHeaders(httpClient),
                          !.fresh = TRUE,
                          !.tok0 = <<authToken, httpClient.Token>>]]
       ELSE call' = [call EXCEPT ![t] =
                       [IdleCall EXCEPT !.op = "Request", !.method = method,
                          !.pc = "done",
                          !.tok0 = <<authToken, httpClient.Token>>,
                          !.ret = [kind |-> "UnsupportedMethod", msg |-> "",
                                   status |-> 0]]]
    /\ UNCHANGED <<input, built, config, httpClient, authToken, lastSet, inboundVars>>

\* client.go:201-208
StartGet(t) == Begin(t, "Get")

\* services.go:191-193
StartAuthenticate(t) == Begin(t, "Authenticate")

\* services.go:212-214
StartLogout(t) == Begin(t, "Logout")

\* services.go:201-204
StartRefresh(t) == Begin(t, "Refresh")

\* The caller's context is cancelled or its deadline passes.
Cancel(t) ==
    /\ call[t].pc \in {"inflight", "check", "waiting"}
    /\ ~call[t].ctxDone
    /\ call' = [call EXCEPT ![t].ctxDone = TRUE,
                            ![t].cancelPc = call[t].pc,
                            ![t].cancelAttempt = call[t].attempt]
    /\ UNCHANGED <<input, built, config, httpClient, authToken, lastSet, inboundVars>>

\* The attempt in flight ends: with the context's error when the context is
\* done, else with a network error or a response.
Complete(t) ==
    /\ call[t].pc = "inflight"
    /\ \E r \in IF call[t].ctxDone THEN {CtxErrResp} ELSE Outcomes(call[t].op) :
         call' = [call EXCEPT ![t].resp = r,
                              ![t].apiError = DecodeError(call[t].apiError, r),
                              ![t].pc = "check"]
    /\ UNCHANGED <<input, built, config, httpClient, authToken, lastSet, inboundVars>>

\* StoresToken with Logout storing its (empty) response token as well.
StoresTokenAlsoOnLogout(op, ret, token) ==
    (op \in AuthOps /\ ShouldSetToken(ret, token)) \/ op = "Logout"

\* services.go:191-214: the facade methods that call SetAuthToken with the
\* response token: Authenticate and Refresh behind their guard, not Logout.
StoresToken(op, ret, token) == op \in AuthOps /\ ShouldSetToken(ret, token)

\* The verb call returned (resp, err): Request/Get map it to their error, and
\* Authenticate/Refresh enter SetAuthToken on success (client.go:146).
Finish(t, err) ==
    LET c == call[t]
        ret == RequestReturn(err, c.resp, c.apiError)
    IN  IF StoresToken(c.op, ret, c.resp.token)
        THEN /\ authToken' = c.resp.token
             /\ call' = [call EXCEPT ![t].pc = "set", ![t].ret = ret,
                                     ![t].tok = c.resp.token]
        ELSE /\ authToken' = authToken
             /\ call' = [call EXCEPT ![t].pc = "done", ![t].ret = ret]

\* resty's Backoff after an attempt: stop when the context is done, when the
\* retry condition says no, or when no retry is left; else draw the wait.
Check(t) ==
    LET c == call[t] IN
    /\ c.pc = "check"
    /\ IF c.ctxDone \/ ~RetryCondition(c.resp)
          \/ c.attempt - 1 >= httpClient.RetryCount
       THEN Finish(t, c.resp.err)
       ELSE /\ \E w \in JitterBackoff(httpClient.RetryWaitTime,
                                      httpClient.RetryMaxWaitTime, c.attempt - 1) :
                 call' = [call EXCEPT ![t].pc = "waiting",
                                      ![t].prevWait = c.wait,
                                      ![t].wait = w]
            /\ authToken' = authToken
    /\ UNCHANGED <<input, built, config, httpClient, lastSet, inboundVars>>

\* The wait between two attempts ends: by the context (Backoff returns
\* ctx.Err()) or by the timer (the next attempt starts).
Wake(t) ==
    LET c == call[t] IN
    /\ c.pc = "waiting"
    /\ IF WaitOutcome(c.ctxDone) = "cancelled"
       THEN Finish(t, "ctx")
       ELSE /\ call' = [call EXCEPT ![t].pc = "inflight",
                                    ![t].attempt = c.attempt + 1,
                                    ![t].sent = AttemptHeaders(httpClient),
                                    ![t].fresh = TRUE]
            /\ authToken' = authToken
    /\ UNCHANGED <<input, built, config, httpClient, lastSet, inboundVars>>

(* ----------------------------- session token --------------------------- *)

\* SetHTTPToken that leaves the HTTP client's token alone.
SetHTTPTokenSkipped(hc, token) == hc

\* client.go:147: c.httpClient.SetAuthToken(token)
SetHTTPToken(hc, token) == [hc EXCEPT !.Token = token]

\* client.go:145-146: a caller's SetAuthToken, up to the write of authToken.
StartSetAuthToken(t, token) ==
    /\ built
    /\ call[t].pc \in {"idle", "done"}
    /\ authToken' = token
    /\ call' = [call EXCEPT ![t] =
                  [IdleCall EXCEPT !.op = "SetAuthToken", !.pc = "set",
                                   !.tok = token,
                                   !.tok0 = <<authToken, httpClient.Token>>]]
    /\ UNCHANGED <<input, built, config, httpClient, lastSet, inboundVars>>

\* client.go:147-148: the write of the HTTP client's token, and the return.
\* Headers built before it no longer count as built after the last set.
FinishSetAuthToken(t) ==
    /\ call[t].pc = "set"
    /\ httpClient' = SetHTTPToken(httpClient, call[t].tok)
    /\ lastSet' = [tok |-> IF call[t].op \in AuthOps THEN call[t].resp.token
                           ELSE call[t].tok,
                   by |-> call[t].op]
    /\ call' = [u \in Threads |->
                  IF u = t
                  THEN [call[u] EXCEPT !.pc = "done", !.fresh = FALSE]
                  ELSE [call[u] EXCEPT !.fresh = FALSE]]
    /\ UNCHANGED <<input, built, config, authToken, inboundVars>>

(* --------------------------- webhook verifier -------------------------- *)

\* Byte strings are sequences of symbols, so that concatenation, length and
\* equality are those of strings.

\* Config.WebhookSecret: unset, and two secrets.
Secrets == {"", "s1", "s2"}

\* The raw bodies a signature is verified against: empty, and two bodies.
RawPayloads == {"", "p1", "p2"}

\* client.go:250-251: hmac.New(sha256.New, key); mac.Write(payload);
\* mac.Sum(nil).  The digest is a symbol of its key and message: HMAC-SHA256
\* is taken as collision-free, and computable for the empty key as well.
HmacSha256(key, payload) == <<key, payload>>

\* hex.EncodeToString: the lower-case hexadecimal digits of the bytes.
HexEncode(bytes) == <<"hex">> \o bytes

\* The upper-case digits of the same bytes, which a sender may produce.
HexEncodeUpper(bytes) == <<"HEX">> \o bytes

\* client.go:252
ExpectedSignature(secret, payload) ==
    <<"sha256=">> \o HexEncode(HmacSha256(secret, payload))

\* hmac.Equal: equality of the two byte strings (in constant time).
HmacEqual(a, b) == a = b

\* The signature header's values: empty, the bare scheme prefix, the
\* signature of every secret and body, its digest without the prefix, and
\* its digest in upper case.
Signatures ==
    {<<>>, <<"sha256=">>}
        \cup { ExpectedSignature(s, p) : s \in Secrets, p \in RawPayloads }
        \cup { HexEncode(HmacSha256(s, p)) : s \in Secrets, p \in RawPayloads }
        \cup { <<"sha256=">> \o HexEncodeUpper(HmacSha256(s, p)) :
                 s \in Secrets, p \in RawPayloads }

\* VerifyWebhookSignature without the check of the secret.
VerifyWebhookSignatureAnySecret(secret, payload, signature) ==
    HmacEqual(ExpectedSignature(secret, payload), signature)

\* client.go:245-255, for the receiver's c.config.WebhookSecret.
VerifyWebhookSignature(secret, payload, signature) ==
    IF secret = ""
    THEN FALSE
    ELSE HmacEqual(ExpectedSignature(secret, payload), signature)

NoVerify == [done |-> FALSE, payload |-> "", signature |-> <<>>, result |-> FALSE]

\* A handler verifies a delivery's body against its signature header.
CallVerifyWebhookSignature(payload, signature) ==
    /\ ~verified.done
    /\ verified' = [done |-> TRUE, payload |-> payload, signature |-> signature,
                    result |-> VerifyWebhookSignature(webhookSecret, payload,
                                                      signature)]
    /\ UNCHANGED <<clientVars, webhookSecret, parsed, listed>>

(* ---------------------------- webhook events --------------------------- *)

\* A Go value held in an interface{}: its dynamic type and its value.
GoValue(go, s, n) == [go |-> go, s |-> s, n |-> n]
GoString(s) == GoValue("string", s, 0)
GoFloat64(n) == GoValue("float64", "", n)
GoInt(n) == GoValue("int", "", n)
GoBool(w) == GoValue("bool", w, 0)
GoNil == GoValue("nil", "", 0)
GoMap == GoValue("map[string]interface {}", "", 0)

\* The values encoding/json stores in an interface{}: string, float64, bool
\* and nil (nested maps and slices are beyond the events drawn here).
DecodedValues == {GoString("x"), GoFloat64(5), GoBool("true"), GoNil}

\* The values a caller can put in an event's data: those, and an int.
DataValues == DecodedValues \cup {GoInt(5)}

\* The keys of an event's data, in the sorted order json.Marshal writes them.
KeyOrder == <<"amount_xrp", "id">>
DataKeys == {KeyOrder[i] : i \in DOMAIN KeyOrder}

\* A map[string]interface{}: nil, or a map (possibly empty).
EmptyMap == [k \in {} |-> GoNil]
NilMap == [nil |-> TRUE, m |-> EmptyMap]
MakeMap(m) == [nil |-> FALSE, m |-> m]
MapsOf(values) ==
    {NilMap} \cup { MakeMap(m) : m \in UNION { [K -> values] : K \in SUBSET DataKeys } }

\* The webhook event: a type tag and an untyped key/value payload
\* (the README's handler reads event.Type and event.Data).
WebhookEvent(type, data) == [Type |-> type, Data |-> data]
ZeroEvent == WebhookEvent("", NilMap)
EventTypes == {"", "investment.created"}
Events == { WebhookEvent(t, d) : t \in EventTypes, d \in MapsOf(DataValues) }
DecodedEvents == { WebhookEvent(t, d) : t \in EventTypes, d \in MapsOf(DecodedValues) }

\* JSON text as its sequence of tokens.
Tok(kind, s, n) == [kind |-> kind, s |-> s, n |-> n]
Punct(c) == Tok("punct", c, 0)
Str(s) == Tok("string", s, 0)
Num(n) == Tok("number", "", n)
Lit(w) == Tok("literal", w, 0)
Garbage == Tok("invalid", "@", 0)

\* json.Marshal of an interface{} value: a number is written the same for an
\* int and for a float64 of that value.
MarshalValue(v) ==
    CASE v.go = "string" -> Str(v.s)
      [] v.go \in {"float64", "int"} -> Num(v.n)
      [] v.go = "bool" -> Lit(v.s)
      [] OTHER -> Lit("null")

RECURSIVE MarshalMembers(_, _)
MarshalMembers(m, keys) ==
    IF Len(keys) = 0
    THEN <<>>
    ELSE LET k == Head(keys)
             rest == MarshalMembers(m, Tail(keys))
         IN  IF k \notin DOMAIN m
             THEN rest
             ELSE <<Str(k), Punct(":"), MarshalValue(m[k])>>
                      \o (IF Len(rest) = 0 THEN <<>> ELSE <<Punct(",")>> \o rest)

\* json.Marshal of a map[string]interface{}: null for the nil map.
MarshalMap(d) ==
    IF d.nil
    THEN <<Lit("null")>>
    ELSE <<Punct("{")>> \o MarshalMembers(d.m, KeyOrder) \o <<Punct("}")>>

\* json.Marshal of a WebhookEvent: {"type":...,"data":...}.
Marshal(e) ==
    <<Punct("{"), Str("type"), Punct(":"), Str(e.Type), Punct(","),
      Str("data"), Punct(":")>> \o MarshalMap(e.Data) \o <<Punct("}")>>

\* encoding/json's scanner over a text: a value is a string, number or
\* literal token, or an object { "key" : value , ... }.  The outcome is the
\* position after the value and its tree, or a failure.
ScanFail == [ok |-> FALSE, pos |-> 0, v |-> [tok |-> Garbage, members |-> <<>>]]
Scanned(pos, tok, members) ==
    [ok |-> TRUE, pos |-> pos, v |-> [tok |-> tok, members |-> members]]

RECURSIVE ScanValue(_, _), ScanMembers(_, _, _)
ScanValue(toks, i) ==
    IF i > Len(toks)
    THEN ScanFail
    ELSE LET t == toks[i] IN
         IF t.kind \in {"string", "number", "literal"}
         THEN Scanned(i + 1, t, <<>>)
         ELSE IF t # Punct("{")
         THEN ScanFail
         ELSE IF i + 1 <= Len(toks) /\ toks[i + 1] = Punct("}")
         THEN Scanned(i + 2, t, <<>>)
         ELSE ScanMembers(toks, i + 1, <<>>)

ScanMembers(toks, i, acc) ==
    IF i + 1 > Len(toks)
    THEN ScanFail
    ELSE IF toks[i].kind # "string" \/ toks[i + 1] # Punct(":")
    THEN ScanFail
    ELSE LET r == ScanValue(toks, i + 2) IN
         IF ~r.ok \/ r.pos > Len(toks)
         THEN ScanFail
         ELSE LET acc2 == Append(acc, [key |-> toks[i].s, val |-> r.v]) IN
              IF toks[r.pos] = Punct("}")
              THEN Scanned(r.pos + 1, Punct("{"), acc2)
              ELSE IF toks[r.pos] = Punct(",")
              THEN ScanMembers(toks, r.pos + 1, acc2)
              ELSE ScanFail

\* json.Unmarshal's checkValid: the whole text is one value.
Valid(toks) ==
    LET r == ScanValue(toks, 1) IN r.ok /\ r.pos = Len(toks) + 1

\* The value json.Unmarshal stores in an interface{} for a JSON value.
DecodeInterface(v) ==
    CASE v.tok.kind = "string" -> GoString(v.tok.s)
      [] v.tok.kind = "number" -> GoFloat64(v.tok.n)
      [] v.tok = Lit("null") -> GoNil
      [] v.tok.kind = "literal" -> GoBool(v.tok.s)
      [] OTHER -> GoMap

\* The map json.Unmarshal builds from an object's members: a later member
\* replaces an earlier one of the same key.
RECURSIVE DecodeMap(_, _)
DecodeMap(members, m) ==
    IF Len(members) = 0
    THEN m
    ELSE LET mb == Head(members) IN
         DecodeMap(Tail(members),
                   [k \in DOMAIN m \cup {mb.key} |->
                       IF k = mb.key THEN DecodeInterface(mb.val) ELSE m[k]])

\* json.Unmarshal of an object into a WebhookEvent: "type" fills Type from a
\* string, "data" fills Data from an object; null leaves Type and makes Data
\* nil; a value of another kind is an UnmarshalTypeError; other keys are
\* skipped.
RECURSIVE DecodeMembers(_, _, _)
DecodeMembers(members, event, err) ==
    IF Len(members) = 0
    THEN [event |-> event, err |-> err]
    ELSE LET mb == Head(members)
             v == mb.val
             rest == Tail(members)
         IN  IF mb.key = "type"
             THEN IF v.tok.kind = "string"
                  THEN DecodeMembers(rest, [event EXCEPT !.Type = v.tok.s], err)
                  ELSE IF v.tok = Lit("null")
                  THEN DecodeMembers(rest, event, err)
                  ELSE DecodeMembers(rest, event, "UnmarshalTypeError")
             ELSE IF mb.key = "data"
             THEN IF v.tok = Punct("{")
                  THEN DecodeMembers(rest,
                           [event EXCEPT !.Data =
                               MakeMap(DecodeMap(v.members, event.Data.m))],
                           err)
                  ELSE IF v.tok = Lit("null")
                  THEN DecodeMembers(rest, [event EXCEPT !.Data = NilMap], err)
                  ELSE DecodeMembers(rest, event, "UnmarshalTypeError")
             ELSE DecodeMembers(rest, event, err)

\* json.Unmarshal(payload, &event) for a zero event: a syntax error for a
\* text that is not one JSON value; null leaves the event as it is; a value
\* that is not an object is an UnmarshalTypeError.
Unmarshal(payload) ==
    IF ~Valid(payload)
    THEN [event |-> ZeroEvent, err |-> "SyntaxError"]
    ELSE LET v == ScanValue(payload, 1).v IN
         IF v.tok = Lit("null")
         THEN [event |-> ZeroEvent, err |-> "none"]
         ELSE IF v.tok # Punct("{")
         THEN [event |-> ZeroEvent, err |-> "UnmarshalTypeError"]
         ELSE DecodeMembers(v.members, ZeroEvent, "none")

\* ParseWebhookEvent that returns the event whatever Unmarshal reports.
ParseWebhookEventErrorDropped(payload) ==
    [nil |-> FALSE, event |-> Unmarshal(payload).event, err |-> "none"]

\* client.go:258-264: (nil, err) when Unmarshal fails, else (&event, nil).
ParseWebhookEvent(payload) ==
    LET r == Unmarshal(payload) IN
    IF r.err # "none"
    THEN [nil |-> TRUE, event |-> ZeroEvent, err |-> r.err]
    ELSE [nil |-> FALSE, event |-> r.event, err |-> "none"]

\* Texts that are not one JSON value: every proper prefix of an event's text
\* (the empty text among them), a stray symbol, a second closing brace, a
\* member without its colon, a trailing comma, and a key that is a number.
MalformedPayloads ==
    LET good == Marshal(WebhookEvent("investment.created",
                                     MakeMap([k \in {"id"} |-> GoString("x")])))
    IN  { SubSeq(good, 1, n) : n \in 0 .. Len(good) - 1 }
            \cup { <<Garbage>>,
                   good \o <<Punct("}")>>,
                   <<Punct("{"), Str("type"), Str("x"), Punct("}")>>,
                   <<Punct("{"), Str("type"), Punct(":"), Str("x"), Punct(","),
                     Punct("}")>>,
                   <<Punct("{"), Num(5), Punct(":"), Str("x"), Punct("}")>> }

\* JSON texts that are not the text of an event: null, the empty object, a
\* number, a string, a type that is a number, data that is a string, both
\* null, and an object with a key the event does not have.
OtherPayloads ==
    { <<Lit("null")>>,
      <<Punct("{"), Punct("}")>>,
      <<Num(5)>>,
      <<Str("x")>>,
      <<Punct("{"), Str("type"), Punct(":"), Num(5), Punct("}")>>,
      <<Punct("{"), Str("data"), Punct(":"), Str("x"), Punct("}")>>,
      <<Punct("{"), Str("type"), Punct(":"), Lit("null"), Punct(","),
        Str("data"), Punct(":"), Lit("null"), Punct("}")>>,
      <<Punct("{"), Str("id"), Punct(":"), Num(5), Punct(","),
        Str("type"), Punct(":"), Str("x"), Punct("}")>> }

\* The bodies handed to ParseWebhookEvent.
ParsePayloads ==
    { Marshal(e) : e \in Events } \cup MalformedPayloads \cup OtherPayloads

NoParse ==
    [done |-> FALSE, payload |-> <<>>,
     result |-> [nil |-> TRUE, event |-> ZeroEvent, err |-> "none"]]

\* A handler parses a delivery's body.
CallParseWebhookEvent(payload) ==
    /\ ~parsed.done
    /\ parsed' = [done |-> TRUE, payload |-> payload,
                  result |-> ParseWebhookEvent(payload)]
    /\ UNCHANGED <<clientVars, webhookSecret, verified, listed>>

(* ---------------------------- Projects.List ---------------------------- *)

\* The largest page number and page size a caller asks for.
MaxNumber == 11

\* services.go:15-21: the options, or the nil pointer.
ListProjectsOptions(status, page, limit, sortBy, sortOrder) ==
    [nil |-> FALSE, Status |-> status, Page |-> page, Limit |-> limit,
     SortBy |-> sortBy, SortOrder |-> sortOrder]
NilOptions ==
    [nil |-> TRUE, Status |-> "", Page |-> 0, Limit |-> 0,
     SortBy |-> "", SortOrder |-> ""]
Numbers == -1 .. MaxNumber
ListInputs ==
    {NilOptions} \cup
    { ListProjectsOptions(s, p, l, b, o) :
        s \in {"", "active"}, p \in Numbers, l \in Numbers,
        b \in {"", "created_at"}, o \in {"", "desc"} }

\* fmt.Sprintf("%d", n): the decimal digits of n, most significant first,
\* after a minus sign when n is negative.
DigitChars == <<"0", "1", "2", "3", "4", "5", "6", "7", "8", "9">>
RECURSIVE FormatNat(_)
FormatNat(n) ==
    IF n < 10
    THEN DigitChars[n + 1]
    ELSE FormatNat(n \div 10) \o DigitChars[(n % 10) + 1]
SprintfD(n) == IF n < 0 THEN "-" \o FormatNat(-n) ELSE FormatNat(n)

\* params[key] = value
SetParam(params, key, value) ==
    [k \in DOMAIN params \cup {key} |-> IF k = key THEN value ELSE params[k]]
NoParams == [k \in {} |-> ""]

\* ListParams that takes a page of 0 for set.
ListParamsPageFromZero(opts) ==
    IF opts.nil THEN NoParams
    ELSE LET p1 == IF opts.Status # "" THEN SetParam(NoParams, "status", opts.Status) ELSE NoParams
             p2 == IF opts.Page >= 0 THEN SetParam(p1, "page", SprintfD(opts.Page)) ELSE p1
             p3 == IF opts.Limit > 0 THEN SetParam(p2, "limit", SprintfD(opts.Limit)) ELSE p2
             p4 == IF opts.SortBy # "" THEN SetParam(p3, "sort_by", opts.SortBy) ELSE p3
         IN  IF opts.SortOrder # "" THEN SetParam(p4, "sort_order", opts.SortOrder) ELSE p4

\* services.go:25-42: the query parameters List builds from its options.
ListParams(opts) ==
    IF opts.nil THEN NoParams
    ELSE LET p1 == IF opts.Status # "" THEN SetParam(NoParams, "status", opts.Status) ELSE NoParams
             p2 == IF opts.Page > 0 THEN SetParam(p1, "page", SprintfD(opts.Page)) ELSE p1
             p3 == IF opts.Limit > 0 THEN SetParam(p2, "limit", SprintfD(opts.Limit)) ELSE p2
             p4 == IF opts.SortBy # "" THEN SetParam(p3, "sort_by", opts.SortBy) ELSE p3
         IN  IF opts.SortOrder # "" THEN SetParam(p4, "sort_order", opts.SortOrder) ELSE p4

NoList == [done |-> FALSE, via |-> "", opts |-> NilOptions, params |-> NoParams]

\* services.go:24-47: List hands the parameters to Client.Get, which sets
\* them as the request's query (client.go:204).
List(opts) ==
    /\ listed' = [done |-> TRUE, via |-> "List", opts |-> opts,
                  params |-> ListParams(opts)]
    /\ UNCHANGED <<clientVars, webhookSecret, verified, parsed>>

\* services.go:50-56
GetActive(page, limit) ==
    LET opts == ListProjectsOptions("active", page, limit, "", "") IN
    /\ listed' = [done |-> TRUE, via |-> "GetActive", opts |-> opts,
                  params |-> ListParams(opts)]
    /\ UNCHANGED <<clientVars, webhookSecret, verified, parsed>>

\* No webhook or list call has been made, and no secret is configured.
NoInbound ==
    /\ webhookSecret = ""
    /\ verified = NoVerify
    /\ parsed = NoParse
    /\ listed = NoList

(* ---------------------------- specifications --------------------------- *)

\* The verbs of the pipeline's specification: one that Request dispatches
\* and one that it does not (the retry loop does not read the verb).
PipelineMethods == {"POST", "HEAD"}

StepWith(t, methods) ==
    \/ \E m \in methods : StartRequest(t, m)
    \/ StartGet(t)
    \/ StartAuthenticate(t)
    \/ StartRefresh(t)
    \/ \E k \in Tokens \cup {""} : StartSetAuthToken(t, k)
    \/ FinishSetAuthToken(t)
    \/ Cancel(t)
    \/ Complete(t)
    \/ Check(t)
    \/ Wake(t)

Step(t) == StepWith(t, PipelineMethods)

\* One goroutine uses a client built from any pipeline configuration.
Init ==
    /\ input \in PipelineInputs
    /\ built = TRUE
    /\ config = ApplyDefaults(input)
    /\ httpClient = NewHTTPClient(ApplyDefaults(input))
    /\ authToken = ""
    /\ call = [t \in Threads |-> IdleCall]
    /\ lastSet = NoSet
    /\ NoInbound

Next == Step("a")

Spec == Init /\ [][Next]_vars

\* Construction alone, over every input configuration.
InitConfig ==
    /\ input \in ConfigInputs
    /\ built = FALSE
    /\ config = input
    /\ httpClient = NewHTTPClient(input)
    /\ authToken = ""
    /\ call = [t \in Threads |-> IdleCall]
    /\ lastSet = NoSet
    /\ NoInbound

NextConfig == NewClientWithConfig

SpecConfig == InitConfig /\ [][NextConfig]_vars

\* The facade's specification: one goroutine calls Request with every verb,
\* Get, the Auth facade (Logout included) and SetAuthToken, on a client
\* that retries once or twice.
FacadeInputs ==
    { Config(k, "", "", 0, r, 0) : k \in APIKeys, r \in 1 .. 2 }

InitFacade ==
    /\ input \in FacadeInputs
    /\ built = TRUE
    /\ config = ApplyDefaults(input)
    /\ httpClient = NewHTTPClient(ApplyDefaults(input))
    /\ authToken = ""
    /\ call = [t \in Threads |-> IdleCall]
    /\ lastSet = NoSet
    /\ NoInbound

NextFacade ==
    \/ StepWith("a", Methods)
    \/ StartLogout("a")

SpecFacade == InitFacade /\ [][NextFacade]_vars

\* Two goroutines share a client with MaxRetries 1: one authenticates while
\* the other sets the token.
InitConc ==
    /\ input = Config("key", "", "", 0, 1, 0)
    /\ built = TRUE
    /\ config = ApplyDefaults(input)
    /\ httpClient = NewHTTPClient(ApplyDefaults(input))
    /\ authToken = ""
    /\ call = [t \in Threads |-> IdleCall]
    /\ lastSet = NoSet
    /\ NoInbound

NextConc ==
    \/ StartAuthenticate("a")
    \/ Complete("a")
    \/ Check("a")
    \/ Wake("a")
    \/ FinishSetAuthToken("a")
    \/ \E k \in Tokens \cup {""} : StartSetAuthToken("b", k)
    \/ FinishSetAuthToken("b")

SpecConc == InitConc /\ [][NextConc]_vars

\* The client's part of the state in the specifications of the webhook
\* verifier and of Projects.List, which do not call the pipeline.
InitClient ==
    /\ input = Config("key", "", "", 0, 0, 0)
    /\ built = TRUE
    /\ config = ApplyDefaults(input)
    /\ httpClient = NewHTTPClient(ApplyDefaults(input))
    /\ authToken = ""
    /\ call = [t \in Threads |-> IdleCall]
    /\ lastSet = NoSet

\* A webhook handler: a client with any secret verifies one delivery and
\* parses one, in either order.
InitWebhook ==
    /\ InitClient
    /\ webhookSecret \in Secrets
    /\ verified = NoVerify
    /\ parsed = NoParse
    /\ listed = NoList

NextWebhook ==
    \/ \E p \in RawPayloads, s \in Signatures : CallVerifyWebhookSignature(p, s)
    \/ \E p \in ParsePayloads : CallParseWebhookEvent(p)

SpecWebhook == InitWebhook /\ [][NextWebhook]_vars

\* A caller lists projects with any options.
InitList ==
    /\ InitClient
    /\ NoInbound

NextList ==
    \/ \E o \in ListInputs : List(o)
    \/ \E p \in Numbers, l \in Numbers : GetActive(p, l)

SpecList == InitList /\ [][NextList]_vars

(* -------------------------------- claims ------------------------------- *)

Retryable(resp) ==
    resp.err = "net" \/ (resp.err = "none" /\ resp.status >= 500)

C3_CancelStopsCall ==
    \A t \in Threads :
        LET c == call[t] IN
        c.cancelPc \in {"inflight", "waiting"} =>
            /\ c.attempt = c.cancelAttempt
            /\ c.pc # "set"
            /\ (c.pc = "done" => c.ret.kind = "ContextError")

\* A call cancelled during the wait after a retryable attempt has returned.
C3_Witness ==
    \E t \in Threads :
        /\ call[t].pc = "done"
        /\ call[t].cancelPc = "waiting"
        /\ call[t].attempt < 1 + config.MaxRetries
        /\ call[t].ret.kind = "ContextError"

\* C4: once a SetAuthToken completed with a non-empty token T (called by a
\* successful Authenticate/Refresh or directly), every attempt whose headers
\* were built after it carries the Authorization header "Bearer T".
C4_BearerIsLastToken ==
    \A t \in Threads :
        LET c == call[t] IN
        (c.fresh /\ c.attempt >= 1 /\ lastSet.tok # "") =>
            /\ "Authorization" \in DOMAIN c.sent
            /\ c.sent["Authorization"] = <<"Bearer", lastSet.tok>>

\* A Get in flight after Authenticate returned the token t1.
C4_Witness ==
    \E t \in Threads :
        /\ call[t].op = "Get"
        /\ call[t].pc = "inflight"
        /\ call[t].fresh
        /\ lastSet = [tok |-> "t1", by |-> "Authenticate"]
        /\ call[t].sent["Authorization"] = <<"Bearer", "t1">>

\* C5: an Authenticate/Refresh call changes neither token copy unless it is
\* on its success path (no error and a non-empty response token): while it
\* runs and after it failed, both copies are what they were when it began.
C5_FailureKeepsToken ==
    \A t \in Threads :
        LET c == call[t] IN
        c.op \in AuthOps =>
            /\ (<<authToken, httpClient.Token>> # c.tok0)
                  => (c.ret.kind = "nil" /\ c.resp.token # "" /\ c.pc \in {"set", "done"})
            /\ (c.pc = "done" /\ c.ret.kind # "nil")
                  => <<authToken, httpClient.Token>> = c.tok0

\* A failed Refresh on a client that holds the token t1.
C5_Witness ==
    \E t \in Threads :
        /\ call[t].op = "Refresh"
        /\ call[t].pc = "done"
        /\ call[t].ret.kind = "GenericAPIError"
        /\ call[t].tok0 = <<"t1", "t1">>
        /\ authToken = "t1"

\* C6 (as claimed): whenever no SetAuthToken is in progress, the client's two
\* token copies agree.
C6_TokenCopiesAgree ==
    (\A t \in Threads : call[t].pc # "set") => authToken = httpClient.Token

\* C7: after NewClientWithConfig the base URL is not empty; an unset field
\* holds its default (Timeout 30 s, MaxRetries 3, RetryWaitTime 1 s,
\* Environment production); without an override the base URL is the testnet
\* endpoint exactly when Environment is testnet, else the production one; and
\* a field the caller set is kept.
C7_Defaults ==
    built =>
        /\ config.BaseURL # ""
        /\ config.Timeout = IF input.Timeout = 0 THEN 30 ELSE input.Timeout
        /\ config.MaxRetries = IF input.MaxRetries = 0 THEN 3 ELSE input.MaxRetries
        /\ config.RetryWaitTime = IF input.RetryWaitTime = 0 THEN 1
                                  ELSE input.RetryWaitTime
        /\ config.Environment = IF input.Environment = "" THEN "production"
                                ELSE input.Environment
        /\ config.BaseURL = IF input.BaseURL # "" THEN input.BaseURL
                            ELSE IF input.Environment = "testnet"
                                 THEN "https://api-testnet.xrpl.sale/v1"
                                 ELSE "https://api.xrpl.sale/v1"
        /\ config.APIKey = input.APIKey
        /\ httpClient.BaseURL = config.BaseURL
        /\ httpClient.RetryCount = config.MaxRetries
        /\ httpClient.RetryWaitTime = config.RetryWaitTime

\* A client built from a configuration with only Environment = testnet set.
C7_Witness ==
    /\ built
    /\ input = Config("", "testnet", "", 0, 0, 0)
    /\ config.BaseURL = "https://api-testnet.xrpl.sale/v1"
    /\ config.RetryWaitTime = 1

\* C8: every attempt carries the X-API-Key header if and only if the
\* configured API key is not empty (then with that key), also once a bearer
\* token is set.
C8_APIKeyHeader ==
    \A t \in Threads :
        call[t].attempt >= 1 =>
            /\ ("X-API-Key" \in DOMAIN call[t].sent) <=> (config.APIKey # "")
            /\ (config.APIKey # "" => call[t].sent["X-API-Key"] = config.APIKey)

\* An attempt that carries both the API key and a bearer token.
C8_Witness ==
    \E t \in Threads :
        /\ call[t].attempt >= 1
        /\ config.APIKey = "key"
        /\ "Authorization" \in DOMAIN call[t].sent
        /\ call[t].sent["X-API-Key"] = "key"

\* C9 (as claimed): when the call returns for a final response with an error
\* status, the error is the APIError with the message decoded from that
\* response if it has one, else the generic error with the status code.
C9_MessageBeforeStatus ==
    \A t \in Threads :
        LET c == call[t] IN
        (c.pc = "done" /\ c.attempt >= 1 /\ c.ret.kind # "ContextError"
           /\ c.resp.err = "none" /\ c.resp.status >= 400) =>
            IF c.resp.msg # ""
            THEN c.ret = [kind |-> "APIError", msg |-> c.resp.msg,
                          status |-> c.resp.status]
            ELSE c.ret = [kind |-> "GenericAPIError", msg |-> "",
                          status |-> c.resp.status]

\* C10 (as claimed): a call returns no error only for a final 2xx response.
C10_NilOnly2xx ==
    \A t \in Threads :
        LET c == call[t] IN
        (c.pc = "done" /\ c.op # "SetAuthToken" /\ c.ret.kind = "nil") =>
            (c.resp.err = "none" /\ c.resp.status >= 200 /\ c.resp.status <= 299)

\* C10 (amended): a call returns no error only for a final response with a
\* status below 400; a final status >= 400 and a network failure give an
\* error.
C10_NilOnlyBelow400 ==
    \A t \in Threads :
        LET c == call[t] IN
        (c.pc = "done" /\ c.op # "SetAuthToken") =>
            /\ c.ret.kind # "pending"
            /\ (c.ret.kind = "nil") =>
                 (c.attempt >= 1 /\ c.resp.err = "none"
                    /\ c.resp.status >= 100 /\ c.resp.status <= 399)
            /\ (c.resp.err # "none" \/ c.resp.status >= 400) => c.ret.kind # "nil"

\* A Get whose final response was a 404: it returned an error.
C10_Witness ==
    \E t \in Threads :
        /\ call[t].op = "Get"
        /\ call[t].pc = "done"
        /\ call[t].resp.status = 404
        /\ call[t].ret.kind \in {"APIError", "GenericAPIError"}

\* C11: a Request with a method outside GET, POST, PUT, PATCH, DELETE returns
\* the unsupported-method error at once: no attempt is made, nothing is
\* retried or waited for, and neither token copy changes.
C11_UnsupportedMethod ==
    \A t \in Threads :
        LET c == call[t] IN
        (c.op = "Request"
           /\ c.method \notin {"GET", "POST", "PUT", "PATCH", "DELETE"}) =>
            /\ c.pc = "done"
            /\ c.ret.kind = "UnsupportedMethod"
            /\ c.attempt = 0
            /\ c.wait = 0
            /\ <<authToken, httpClient.Token>> = c.tok0

\* A Request with HEAD on a client that holds the token t1 has returned.
C11_Witness ==
    \E t \in Threads :
        /\ call[t].op = "Request"
        /\ call[t].method = "HEAD"
        /\ call[t].ret.kind = "UnsupportedMethod"
        /\ call[t].tok0 = <<"t1", "t1">>
        /\ authToken = "t1"

\* C15: Logout changes neither token copy, whatever its outcome, so requests
\* after it still carry the token set before it (C4); and an
\* Authenticate/Refresh that succeeds with an empty response token leaves
\* the tokens as they were.
C15_LogoutKeepsToken ==
    \A t \in Threads :
        LET c == call[t] IN
        /\ c.op = "Logout" =>
              (<<authToken, httpClient.Token>> = c.tok0 /\ c.pc # "set")
        /\ (c.op \in AuthOps /\ c.pc \in {"set", "done"} /\ c.resp.token = "") =>
              (<<authToken, httpClient.Token>> = c.tok0 /\ c.pc # "set")

\* A Logout that succeeded after Authenticate stored t1: the client still
\* holds t1.
C15_Witness ==
    \E t \in Threads :
        /\ call[t].op = "Logout"
        /\ call[t].pc = "done"
        /\ call[t].ret.kind = "nil"
        /\ lastSet = [tok |-> "t1", by |-> "Authenticate"]
        /\ httpClient.Token = "t1"
        /\ authToken = "t1"

\* An Authenticate that succeeded with an empty response token on a client
\* that holds t1.
C15_WitnessEmptyToken ==
    \E t \in Threads :
        /\ call[t].op = "Authenticate"
        /\ call[t].pc = "done"
        /\ call[t].ret.kind = "nil"
        /\ call[t].resp.status = 200
        /\ call[t].resp.token = ""
        /\ authToken = "t1"

\* C12: VerifyWebhookSignature returns a boolean that is true exactly when a
\* non-empty secret is configured and the signature is "sha256=" followed by
\* the lower-case hex HMAC-SHA256 of the payload under that secret; so for a
\* signature made from some secret and payload it is true only when both
\* are the receiver's secret and the verified payload, and with no secret
\* configured it is false for every payload and signature.
C12_VerifyExactly ==
    verified.done =>
        /\ verified.result \in BOOLEAN
        /\ verified.result <=>
              /\ webhookSecret # ""
              /\ verified.signature =
                    <<"sha256=">> \o HexEncode(HmacSha256(webhookSecret,
                                                          verified.payload))
        /\ \A s \in Secrets, p \in RawPayloads :
              verified.signature = <<"sha256=">> \o HexEncode(HmacSha256(s, p)) =>
                  (verified.result <=>
                      (webhookSecret # "" /\ s = webhookSecret
                          /\ p = verified.payload))
        /\ webhookSecret = "" => ~verified.result

C12_Witness ==
    /\ verified.done
    /\ webhookSecret = "s1"
    /\ verified.payload = "p1"
    /\ verified.signature = <<"sha256=", "hex", "s1", "p1">>
    /\ verified.result = TRUE

C12_WitnessNoSecret ==
    /\ verified.done
    /\ webhookSecret = ""
    /\ verified.payload = "p1"
    /\ verified.signature = <<"sha256=", "hex", "", "p1">>
    /\ verified.result = FALSE

\* The event json.Unmarshal gives back for an event: its numbers as float64.
AsDecoded(e) ==
    [e EXCEPT !.Data.m = [k \in DOMAIN e.Data.m |->
                             IF e.Data.m[k].go = "int"
                             THEN GoFloat64(e.Data.m[k].n)
                             ELSE e.Data.m[k]]]

C13_WitnessMalformed ==
    /\ parsed.done
    /\ parsed.payload = <<Punct("{"), Str("type"), Punct(":")>>
    /\ parsed.result.nil
    /\ parsed.result.err = "SyntaxError"

\* The digit sequences of up to three digits, the number one stands for, and
\* the string it spells.
DigitSeqs == UNION { [1 .. k -> 0 .. 9] : k \in 1 .. 3 }
RECURSIVE DigitsValue(_)
DigitsValue(ds) ==
    IF Len(ds) = 0
    THEN 0
    ELSE 10 * DigitsValue(SubSeq(ds, 1, Len(ds) - 1)) + ds[Len(ds)]
RECURSIVE DigitsString(_)
DigitsString(ds) ==
    IF Len(ds) = 0
    THEN ""
    ELSE DigitChars[Head(ds) + 1] \o DigitsString(Tail(ds))

\* str is n in decimal: the digits of n, without a leading zero.
IsDecimalOf(str, n) ==
    \E ds \in DigitSeqs :
        /\ DigitsValue(ds) = n
        /\ (Len(ds) > 1 => ds[1] # 0)
        /\ DigitsString(ds) = str

\* C14: the query parameters List hands to Get hold exactly the options that
\* are set: status, sort_by and sort_order iff the option's string is not
\* empty, with that string; page and limit iff the option's integer is > 0,
\* with that integer in decimal; no other key; and no key at all for nil
\* options.
C14_ListParamsExact ==
    listed.done =>
        LET o == listed.opts
            p == listed.params
            has(k) == k \in DOMAIN p
        IN  /\ DOMAIN p \subseteq {"status", "page", "limit", "sort_by", "sort_order"}
            /\ o.nil => DOMAIN p = {}
            /\ ~o.nil =>
                  /\ has("status") <=> o.Status # ""
                  /\ has("status") => p["status"] = o.Status
                  /\ has("page") <=> o.Page > 0
                  /\ has("page") => IsDecimalOf(p["page"], o.Page)
                  /\ has("limit") <=> o.Limit > 0
                  /\ has("limit") => IsDecimalOf(p["limit"], o.Limit)
                  /\ has("sort_by") <=> o.SortBy # ""
                  /\ has("sort_by") => p["sort_by"] = o.SortBy
                  /\ has("sort_order") <=> o.SortOrder # ""
                  /\ has("sort_order") => p["sort_order"] = o.SortOrder
            /\ (~o.nil /\ o.Status = "active" /\ o.Page = 1 /\ o.Limit = 10
                   /\ o.SortBy = "" /\ o.SortOrder = "") =>
                  p = [status |-> "active", page |-> "1", limit |-> "10"]

C14_Witness ==
    /\ listed.done
    /\ listed.via = "List"
    /\ listed.opts = ListProjectsOptions("active", 1, 10, "", "")
    /\ DOMAIN listed.params = {"status", "page", "limit"}
    /\ listed.params["status"] = "active"
    /\ listed.params["page"] = "1"
    /\ listed.params["limit"] = "10"

C14_WitnessNil ==
    /\ listed.done
    /\ listed.opts.nil
    /\ DOMAIN listed.params = {}

C14_WitnessGetActive ==
    /\ listed.done
    /\ listed.via = "GetActive"
    /\ listed.opts.Page = 0
    /\ listed.opts.Limit = 11
    /\ DOMAIN listed.params = {"status", "limit"}
    /\ listed.params["limit"] = "11"

====
